---- MODULE Spec2Model ----
(***************************************************************************)
(* Request-dispatch core of the lolzteam API client                        *)
(* (src/src/lolzteam/_base_client.py, _client.py, _exceptions.py).         *)
(*                                                                         *)
(* One client instance (class Lolzteam) is shared by the callers in        *)
(* Callers.  Each caller runs SyncAPIClient.request step by step; the      *)
(* clock (time.time) is the variable now, read in whole ticks.             *)
(***************************************************************************)
EXTENDS Integers, Sequences, FiniteSets, TLC

VARIABLES
    version,                 \* BaseClient._version
    base_url,                \* BaseClient._base_url
    api_key,                 \* Lolzteam._api_key
    keep_rate_limit,         \* BaseClient._keep_rate_limit
    request_limit,           \* BaseClient._request_limit
    delay_between_requests,  \* BaseClient._delay_between_requests
    last_request_time,       \* BaseClient._last_request_time
    now,                     \* the reading time.time() would give
    last_completed,          \* the wire: when the latest response arrived
    call,                    \* per caller: position in request() and its locals
    environ,                 \* os.environ.get("LOLZTEAM_API_KEY")
    api_key_arg,             \* the api_key argument Lolzteam() was called with
    init_error,              \* the exception Lolzteam.__init__ raised, if any
    session,                 \* SyncAPIClient._client: "none", "open", "closed"
    scope,                   \* the with block: "none", "entered", "exited"
    exit_exc,                \* the exception __exit__ was called with
    propagated,              \* the exception that left the with statement
    endpoint,                \* per caller: the frame of the mixin method
    remembered,              \* Routes and the requests built from them earlier
    twin                     \* a second client and the step being compared

vars == <<version, base_url, api_key, keep_rate_limit, request_limit,
          delay_between_requests, last_request_time, now, last_completed, call,
          environ, api_key_arg, init_error, session, scope, exit_exc,
          propagated, endpoint, remembered, twin>>

lifecycle == <<environ, api_key_arg, init_error, session, scope, exit_exc,
               propagated>>

config == <<version, base_url, api_key, keep_rate_limit, request_limit,
            delay_between_requests>>

\* what no step of request() or of the client's lifecycle touches
aux == <<endpoint, remembered, twin>>

-----------------------------------------------------------------------------
(* Bounds of the model                                                     *)

MaxTime == 6

\* how many built requests are remembered for a later comparison
MaxNotes == 2

-----------------------------------------------------------------------------
(* Defaults of Lolzteam.__init__                                           *)

DefaultRequestLimit == 20
DefaultDelay == 3

\* delay_between_requests values the client is constructed with
Delays == {1, DefaultDelay}

-----------------------------------------------------------------------------
(* Python's None and optional values: None is <<>>, a value x is <<x>>.    *)

None == <<>>
Some(x) == <<x>>

EmptyMap == <<>>

\* bool(x) of an optional mapping: None and the empty mapping are falsy
Truthy(opt) == opt # None /\ DOMAIN opt[1] # {}

Callers == {"c1", "c2"}
SeqCallers == {"c1"}

\* a query parameter value: an int or a str
IntValue(n) == [int |-> n]
StrValue(s) == [str |-> s]

\* params is a dict: its items in insertion order, each value optional
Paths == {"/users"}
Params == Some(<< <<"limit", Some(IntValue(10))>> >>)
DataSet == {None, Some(EmptyMap), Some([title |-> "t"])}
FilesSet == {None, Some(EmptyMap), Some([avatar |-> "bytes"])}

\* status codes a server can answer with
Statuses == {200, 301, 400, 403, 429, 600}

\* response bodies as the text on the wire
BodyAbsent == ""
BodyHtml == "<html>"
BodySlowDown == "{\"errors\": [\"slow down\"]}"
BodyTwoErrors == "{\"errors\": [\"a\", \"b\"]}"
BodyNoErrors == "{\"errors\": []}"
BodyId == "{\"id\": 1}"
BodyArray == "[1]"
Bodies == {BodyAbsent, BodyHtml, BodySlowDown, BodyTwoErrors, BodyNoErrors,
           BodyId, BodyArray}

-----------------------------------------------------------------------------
(* Route                                                                   *)

Route(method, url, files, data, params) ==
    [method |-> method, url |-> url, files |-> files, data |-> data,
     params |-> params]

-----------------------------------------------------------------------------
(* Request building                                                        *)

SetItem(h, k, v) == (k :> v) @@ h

UserAgent == "Lolzteam/Python " \o version

\* AuthHeaders of BaseClient, as when Lolzteam did not override it
AuthHeaders_BaseClient == [h \in {} |-> ""]

AuthHeaders == "Authorization" :> ("Bearer " \o api_key)

\* DefaultHeaders handing out one dict that keeps what a build wrote into
\* it: the headers of the latest build that was noted
DefaultHeaders_Shared ==
    IF Len(remembered) = 0 THEN ("User-Agent" :> UserAgent) @@ AuthHeaders
    ELSE remembered[Len(remembered)].request.headers

DefaultHeaders == ("User-Agent" :> UserAgent) @@ AuthHeaders

\* ContentTypeHeaders testing `is not None` in place of truthiness
ContentTypeHeaders_NotNone(route, headers) ==
    LET h1 == IF route.files # None
              THEN SetItem(headers, "Content-Type", "multipart/form-data")
              ELSE headers
    IN  IF route.data # None
        THEN SetItem(h1, "Content-Type", "application/json")
        ELSE h1

ContentTypeHeaders(route, headers) ==
    LET h1 == IF Truthy(route.files)
              THEN SetItem(headers, "Content-Type", "multipart/form-data")
              ELSE headers
    IN  IF Truthy(route.data)
        THEN SetItem(h1, "Content-Type", "application/json")
        ELSE h1

\* str(value), as the query string shows a value
Str(v) == IF "int" \in DOMAIN v THEN ToString(v.int) ELSE v.str

\* EncodePairs writing the text None for a value that is None
RECURSIVE EncodePairs_KeepsNone(_)
EncodePairs_KeepsNone(items) ==
    IF Len(items) = 0 THEN <<>>
    ELSE LET value == items[1][2]
         IN  <<items[1][1] \o "=" \o
                 (IF value = None THEN "None" ELSE Str(value[1]))>>
             \o EncodePairs_KeepsNone(Tail(items))

\* the name=value pairs of the query string: the HTTP library skips every
\* item whose value is None
RECURSIVE EncodePairs(_)
EncodePairs(items) ==
    IF Len(items) = 0 THEN <<>>
    ELSE LET value == items[1][2]
             rest == EncodePairs(Tail(items))
         IN  IF value = None THEN rest
             ELSE <<items[1][1] \o "=" \o Str(value[1])>> \o rest

\* "&".join(pairs)
RECURSIVE JoinAmp(_)
JoinAmp(pairs) ==
    IF Len(pairs) = 0 THEN ""
    ELSE IF Len(pairs) = 1 THEN pairs[1]
    ELSE pairs[1] \o "&" \o JoinAmp(Tail(pairs))

\* the query string of the prepared request, without the question mark
EncodeParams(params) ==
    IF params = None THEN "" ELSE JoinAmp(EncodePairs(params[1]))

\* BuildRequestOf on a header map kept on the client between builds
BuildRequestOf_KeepsHeaders(route) ==
    [method |-> route.method,
     url |-> base_url \o route.url,
     query |-> EncodeParams(route.params),
     headers |-> ContentTypeHeaders(
                     route,
                     IF Len(remembered) = 0 THEN DefaultHeaders
                     ELSE remembered[Len(remembered)].request.headers),
     files |-> route.files,
     data |-> route.data]

BuildRequestOf(route) ==
    [method |-> route.method,
     url |-> base_url \o route.url,
     query |-> EncodeParams(route.params),
     headers |-> ContentTypeHeaders(route, DefaultHeaders),
     files |-> route.files,
     data |-> route.data]

-----------------------------------------------------------------------------
(* Responses and exceptions                                                *)

Response(status, body, request) ==
    [status_code |-> status, body |-> body, request |-> request]

\* niquests.Response.ok: raise_for_status raises for 400 <= status < 600
Ok(response) == ~(400 <= response.status_code /\ response.status_code < 600)

\* niquests.Response.json on the bodies of the model
JsonDecode(body) ==
    CASE body = BodySlowDown ->
            [valid |-> TRUE, type |-> "object",
             value |-> [errors |-> <<"slow down">>]]
      [] body = BodyTwoErrors ->
            [valid |-> TRUE, type |-> "object",
             value |-> [errors |-> <<"a", "b">>]]
      [] body = BodyNoErrors ->
            [valid |-> TRUE, type |-> "object", value |-> [errors |-> <<>>]]
      [] body = BodyId ->
            [valid |-> TRUE, type |-> "object", value |-> [id |-> 1]]
      [] body = BodyArray ->
            [valid |-> TRUE, type |-> "array", value |-> <<1>>]
      [] OTHER ->
            [valid |-> FALSE, type |-> "invalid", value |-> None]

\* dict.get("errors", [])
GetErrors(obj) == IF "errors" \in DOMAIN obj THEN obj.errors ELSE <<>>

\* "; ".join(data)
RECURSIVE Join(_)
Join(data) ==
    IF Len(data) = 0 THEN ""
    ELSE IF Len(data) = 1 THEN data[1]
    ELSE data[1] \o "; " \o Join(Tail(data))

\* an exception that is not an APIError (raised by the libraries)
OtherError(cls) ==
    [cls |-> cls, message |-> cls, request |-> None, body |-> None,
     response |-> None, status_code |-> None]

APIError(cls, message, request, body) ==
    [cls |-> cls, message |-> message, request |-> request, body |-> body,
     response |-> None, status_code |-> None]

APIStatusError(cls, message, response, body) ==
    [APIError(cls, message, Some(response.request), body)
        EXCEPT !.response = Some(response),
               !.status_code = Some(response.status_code)]

RateLimitError(message, response, body) ==
    APIStatusError("RateLimitError", message, response, body)

\* CheckResponseOf without the branch of the other failing statuses
CheckResponseOf_Only429(response) ==
    IF Ok(response) THEN None
    ELSE IF response.status_code = 429
         THEN Some(RateLimitError("Too many requests", response, None))
    ELSE None

\* BaseClient._check_response: the exception raised, or None
CheckResponseOf(response) ==
    IF Ok(response) THEN None
    ELSE IF response.status_code = 429
         THEN Some(RateLimitError("Too many requests", response, None))
    ELSE LET json == JsonDecode(response.body)
         IN  IF ~json.valid THEN Some(OtherError("JSONDecodeError"))
             ELSE IF json.type # "object"
                  THEN Some(OtherError("AttributeError"))
             ELSE LET data == GetErrors(json.value)
                      message == Join(data)
                  IN  Some(APIStatusError("APIStatusError", message, response,
                                          Some(data)))

-----------------------------------------------------------------------------
(* Rate limiter                                                            *)

\* GetSleepDuration waiting only once request_limit is used up
GetSleepDuration_Burst(time, last, delay) ==
    LET elapsed == time - last
    IN  IF request_limit > 1 THEN 0
        ELSE IF elapsed < delay THEN delay - elapsed ELSE 0

\* GetSleepDuration sleeping the whole delay whatever time has passed
GetSleepDuration_WholeDelay(time, last, delay) ==
    LET elapsed == time - last
    IN  IF elapsed < delay THEN delay ELSE 0

\* GetSleepDuration without the test of the elapsed time
GetSleepDuration_Unclamped(time, last, delay) ==
    LET elapsed == time - last
    IN  delay - elapsed

GetSleepDuration(time, last, delay) ==
    LET elapsed == time - last
    IN  IF elapsed < delay THEN delay - elapsed ELSE 0

-----------------------------------------------------------------------------
(* The state machine                                                       *)

NoOutcome == [kind |-> "none", value |-> None, exc |-> None]
Returned(v) == [kind |-> "return", value |-> Some(v), exc |-> None]
Raised(e) == [kind |-> "raise", value |-> None, exc |-> Some(e)]

\* sends counts the calls of self._client.send made by the call; sent_at is
\* the time the request left, kept while the answer is awaited
IdleCall ==
    [pc |-> "idle", route |-> None, sleep_time |-> None, wake_at |-> None,
     prepped |-> None, sends |-> 0, sent_at |-> None, response |-> None,
     outcome |-> NoOutcome]

Version == "1.0"
DefaultBaseUrl == "https://api.zelenka.guru"

\* no mixin method is running
IdleEndpoint ==
    [pc |-> "idle", method |-> None, entry |-> None, result |-> NoOutcome]

\* nothing is remembered, and there is one client only
InitAux ==
    /\ endpoint = [c \in Callers |-> IdleEndpoint]
    /\ remembered = <<>>
    /\ twin = None

\* the client constructed with api_key="key" and the environment unset
Constructed ==
    /\ version = Version
    /\ base_url = DefaultBaseUrl
    /\ api_key = "key"
    /\ keep_rate_limit \in BOOLEAN
    /\ request_limit = DefaultRequestLimit
    /\ delay_between_requests \in Delays
    /\ last_request_time = 0
    /\ now = 0
    /\ last_completed = None
    /\ call = [c \in Callers |-> IdleCall]
    /\ environ = None
    /\ api_key_arg = Some("key")
    /\ init_error = None
    /\ session = "open"
    /\ scope = "none"
    /\ exit_exc = None
    /\ propagated = None

Init == Constructed /\ InitAux

\* Request entering the rate limiter whatever keep_rate_limit says
Request_AlwaysEnforce(c, route) ==
    /\ session = "open"
    /\ call[c].pc = "idle"
    /\ call' = [call EXCEPT ![c] =
                  [IdleCall EXCEPT !.pc = "enforce", !.route = Some(route)]]
    /\ UNCHANGED <<config, lifecycle, aux, last_request_time, now, last_completed>>

\* SyncAPIClient.request, entry: the rate-limit switch.  The caller calls
\* only a client that was constructed and not closed.
Request(c, route) ==
    /\ session = "open"
    /\ call[c].pc = "idle"
    /\ call' = [call EXCEPT ![c] =
                  [IdleCall EXCEPT
                     !.pc = IF keep_rate_limit THEN "enforce" ELSE "build",
                     !.route = Some(route)]]
    /\ UNCHANGED <<config, lifecycle, aux, last_request_time, now, last_completed>>

\* the Routes that get, post, delete and put construct
GetRoute(path, params) == Route("GET", path, None, None, params)
PostRoute(path, files, data, params) ==
    Route("POST", path, files, data, params)
DeleteRoute(path, params) == Route("DELETE", path, None, None, params)
PutRoute(path, data, params) == Route("PUT", path, None, data, params)

\* Get going to the build without passing the rate-limit switch
Get_SkipsLimiter(c) ==
    /\ session = "open"
    /\ call[c].pc = "idle"
    /\ \E path \in Paths :
          call' = [call EXCEPT ![c] =
                     [IdleCall EXCEPT
                        !.pc = "build",
                        !.route = Some(GetRoute(path, Params))]]
    /\ UNCHANGED <<config, lifecycle, aux, last_request_time, now, last_completed>>

Get(c) ==
    \E path \in Paths :
        Request(c, GetRoute(path, Params))

Post(c) ==
    \E path \in Paths, files \in FilesSet, data \in DataSet :
        Request(c, PostRoute(path, files, data, None))

Delete(c) ==
    \E path \in Paths :
        Request(c, DeleteRoute(path, None))

Put(c) ==
    \E path \in Paths, data \in DataSet :
        Request(c, PutRoute(path, data, None))

\* EnforceRateLimit waiting until no other caller is inside request()
EnforceRateLimit_Locked(c) ==
    /\ call[c].pc = "enforce"
    /\ \A d \in Callers \ {c} : call[d].pc = "idle"
    /\ LET sleep_time == GetSleepDuration(now, last_request_time,
                                          delay_between_requests)
       IN  call' = [call EXCEPT
                      ![c].sleep_time = Some(sleep_time),
                      ![c].wake_at = Some(now + sleep_time),
                      ![c].pc = IF sleep_time > 0 THEN "sleep" ELSE "build"]
    /\ UNCHANGED <<config, lifecycle, aux, last_request_time, now, last_completed>>

\* SyncAPIClient._enfore_rate_limit up to the call of time.sleep
EnforceRateLimit(c) ==
    /\ call[c].pc = "enforce"
    /\ LET sleep_time == GetSleepDuration(now, last_request_time,
                                          delay_between_requests)
       IN  call' = [call EXCEPT
                      ![c].sleep_time = Some(sleep_time),
                      ![c].wake_at = Some(now + sleep_time),
                      ![c].pc = IF sleep_time > 0 THEN "sleep" ELSE "build"]
    /\ UNCHANGED <<config, lifecycle, aux, last_request_time, now, last_completed>>

\* Sleep in a loop that reads the clock again after every sleep
Sleep_Rechecks(c) ==
    /\ call[c].pc = "sleep"
    /\ now >= call[c].wake_at[1]
    /\ call' = [call EXCEPT ![c].pc = "enforce"]
    /\ UNCHANGED <<config, lifecycle, aux, last_request_time, now, last_completed>>

\* time.sleep(sleep_time) returns once the duration has passed
Sleep(c) ==
    /\ call[c].pc = "sleep"
    /\ now >= call[c].wake_at[1]
    /\ call' = [call EXCEPT ![c].pc = "build"]
    /\ UNCHANGED <<config, lifecycle, aux, last_request_time, now, last_completed>>

BuildRequest(c) ==
    /\ call[c].pc = "build"
    /\ call' = [call EXCEPT
                  ![c].prepped = Some(BuildRequestOf(call[c].route[1])),
                  ![c].sleep_time = None,
                  ![c].wake_at = None,
                  ![c].pc = "send"]
    /\ UNCHANGED <<config, lifecycle, aux, last_request_time, now, last_completed>>

\* Send writing the timestamp when the request leaves
Send_StampsAtDispatch(c) ==
    /\ call[c].pc = "send"
    /\ call' = [call EXCEPT ![c].pc = "wait",
                             ![c].sends = call[c].sends + 1,
                             ![c].sent_at = Some(now)]
    /\ last_request_time' = now
    /\ UNCHANGED <<config, lifecycle, aux, now, last_completed>>

\* self._client.send(prepped): the request leaves
Send(c) ==
    /\ call[c].pc = "send"
    /\ call' = [call EXCEPT ![c].pc = "wait",
                             ![c].sends = call[c].sends + 1,
                             ![c].sent_at = Some(now)]
    /\ UNCHANGED <<config, lifecycle, aux, last_request_time, now, last_completed>>

\* self._client.send(prepped): the response arrives
Answer(c, status, body) ==
    /\ call[c].pc = "wait"
    /\ call' = [call EXCEPT
                  ![c].response =
                      Some(Response(status, body, call[c].prepped[1])),
                  ![c].sent_at = None,
                  ![c].pc = "check"]
    /\ last_completed' = Some(now)
    /\ UNCHANGED <<config, lifecycle, aux, last_request_time, now>>

Receive(c) ==
    \E status \in Statuses, body \in Bodies : Answer(c, status, body)

\* TransportError catching the failure and raising an APIError in its place
TransportError_Wrapped(c) ==
    /\ call[c].pc = "wait"
    /\ call' = [call EXCEPT
                  ![c].outcome = Raised(APIError("APIError", "ConnectionError",
                                                 call[c].prepped, None)),
                  ![c].sent_at = None,
                  ![c].pc = "idle"]
    /\ UNCHANGED <<config, lifecycle, aux, last_request_time, now, last_completed>>

\* self._client.send(prepped): the session raises
TransportError(c) ==
    /\ call[c].pc = "wait"
    /\ call' = [call EXCEPT
                  ![c].outcome = Raised(OtherError("ConnectionError")),
                  ![c].sent_at = None,
                  ![c].pc = "idle"]
    /\ UNCHANGED <<config, lifecycle, aux, last_request_time, now, last_completed>>

\* CheckResponse with the timestamp written before the response is checked
CheckResponse_UpdatesFirst(c) ==
    /\ call[c].pc = "check"
    /\ last_request_time' = now
    /\ LET exc == CheckResponseOf(call[c].response[1])
       IN  call' = IF exc # None
                   THEN [call EXCEPT ![c].outcome = Raised(exc[1]),
                                     ![c].pc = "idle"]
                   ELSE [call EXCEPT ![c].pc = "json"]
    /\ UNCHANGED <<config, lifecycle, aux, now, last_completed>>

\* CheckResponse sending the request again after a 429
CheckResponse_Retry429(c) ==
    /\ call[c].pc = "check"
    /\ LET exc == CheckResponseOf(call[c].response[1])
       IN  call' = IF exc # None
                   THEN IF call[c].response[1].status_code = 429
                        THEN [call EXCEPT ![c].pc = "send"]
                        ELSE [call EXCEPT ![c].outcome = Raised(exc[1]),
                                          ![c].pc = "idle"]
                   ELSE [call EXCEPT ![c].pc = "update"]
    /\ UNCHANGED <<config, lifecycle, aux, last_request_time, now, last_completed>>

\* CheckResponse recording the completion time of a failed request too
CheckResponse_StampsFailure(c) ==
    /\ call[c].pc = "check"
    /\ LET exc == CheckResponseOf(call[c].response[1])
       IN  /\ call' = IF exc # None
                      THEN [call EXCEPT ![c].outcome = Raised(exc[1]),
                                        ![c].pc = "idle"]
                      ELSE [call EXCEPT ![c].pc = "update"]
           /\ last_request_time' = IF exc # None THEN now
                                   ELSE last_request_time
    /\ UNCHANGED <<config, lifecycle, aux, now, last_completed>>

CheckResponse(c) ==
    /\ call[c].pc = "check"
    /\ LET exc == CheckResponseOf(call[c].response[1])
       IN  call' = IF exc # None
                   THEN [call EXCEPT ![c].outcome = Raised(exc[1]),
                                     ![c].pc = "idle"]
                   ELSE [call EXCEPT ![c].pc = "update"]
    /\ UNCHANGED <<config, lifecycle, aux, last_request_time, now, last_completed>>

\* UpdateLastRequestTime counting the request against request_limit
UpdateLastRequestTime_CountsLimit(c) ==
    /\ call[c].pc = "update"
    /\ last_request_time' = now
    /\ request_limit' = request_limit - 1
    /\ call' = [call EXCEPT ![c].pc = "json"]
    /\ UNCHANGED <<version, base_url, api_key, keep_rate_limit,
                   delay_between_requests, lifecycle, aux, now,
                   last_completed>>

\* UpdateLastRequestTime run only once the body has been decoded
UpdateLastRequestTime_AfterDecode(c) ==
    /\ call[c].pc = "update"
    /\ last_request_time' = IF JsonDecode(call[c].response[1].body).valid
                            THEN now ELSE last_request_time
    /\ call' = [call EXCEPT ![c].pc = "json"]
    /\ UNCHANGED <<config, lifecycle, aux, now, last_completed>>

UpdateLastRequestTime(c) ==
    /\ call[c].pc = "update"
    /\ last_request_time' = now
    /\ call' = [call EXCEPT ![c].pc = "json"]
    /\ UNCHANGED <<config, lifecycle, aux, now, last_completed>>

\* return response.json()
ReturnJson(c) ==
    /\ call[c].pc = "json"
    /\ LET json == JsonDecode(call[c].response[1].body)
       IN  call' = [call EXCEPT
                      ![c].outcome =
                          IF json.valid THEN Returned(json.value)
                          ELSE Raised(OtherError("JSONDecodeError")),
                      ![c].pc = "idle"]
    /\ UNCHANGED <<config, lifecycle, aux, last_request_time, now, last_completed>>

\* the clock advances
Tick ==
    /\ now < MaxTime
    /\ now' = now + 1
    /\ UNCHANGED <<config, lifecycle, aux, last_request_time, last_completed, call>>

Step(c) ==
    \/ Get(c)
    \/ Post(c)
    \/ Delete(c)
    \/ Put(c)
    \/ EnforceRateLimit(c)
    \/ Sleep(c)
    \/ BuildRequest(c)
    \/ Send(c)
    \/ Receive(c)
    \/ TransportError(c)
    \/ CheckResponse(c)
    \/ UpdateLastRequestTime(c)
    \/ ReturnJson(c)

\* one caller uses the client strictly sequentially
Next == Tick \/ \E c \in SeqCallers : Step(c)

Spec == Init /\ [][Next]_vars

-----------------------------------------------------------------------------
(* Two callers sharing the client without synchronisation                  *)

InitConcurrent == Init /\ keep_rate_limit

ConcurrentReceive(c) == Answer(c, 200, BodyId)

ConcurrentStep(c) ==
    \/ Get(c)
    \/ EnforceRateLimit(c)
    \/ Sleep(c)
    \/ BuildRequest(c)
    \/ Send(c)
    \/ ConcurrentReceive(c)
    \/ CheckResponse(c)
    \/ UpdateLastRequestTime(c)
    \/ ReturnJson(c)

NextConcurrent == Tick \/ \E c \in Callers : ConcurrentStep(c)

SpecConcurrent == InitConcurrent /\ [][NextConcurrent]_vars

-----------------------------------------------------------------------------
(* Construction and the managed scope                                      *)

\* the api_key arguments and the environments of the model
KeyArgs == {None, Some(""), Some("key")}
EnvValues == {None, Some("envkey")}

\* bool(x) of an optional string: None and "" are falsy
TruthyStr(opt) == opt # None /\ opt[1] # ""

\* before Lolzteam(...) is called: no attribute is set
InitLifecycle ==
    /\ version = ""
    /\ base_url = ""
    /\ api_key = ""
    /\ keep_rate_limit = FALSE
    /\ request_limit = 0
    /\ delay_between_requests = 0
    /\ last_request_time = 0
    /\ now = 0
    /\ last_completed = None
    /\ call = [c \in Callers |-> IdleCall]
    /\ environ \in EnvValues
    /\ api_key_arg = None
    /\ init_error = None
    /\ session = "none"
    /\ scope = "none"
    /\ exit_exc = None
    /\ propagated = None
    /\ InitAux

\* Construct accepting every api_key that is not None
Construct_NoneCheckOnly ==
    /\ session = "none"
    /\ init_error = None
    /\ \E arg \in KeyArgs, keep \in BOOLEAN, delay \in Delays :
          LET key == IF arg # None THEN arg ELSE environ
          IN  /\ api_key_arg' = arg
              /\ IF key = None
                 THEN /\ init_error' = Some(OtherError("TypeError"))
                      /\ UNCHANGED <<config, last_request_time, session>>
                 ELSE /\ api_key' = key[1]
                      /\ version' = Version
                      /\ base_url' = DefaultBaseUrl
                      /\ keep_rate_limit' = keep
                      /\ last_request_time' = 0
                      /\ request_limit' = DefaultRequestLimit
                      /\ delay_between_requests' = delay
                      /\ session' = "open"
                      /\ UNCHANGED init_error
    /\ UNCHANGED <<now, last_completed, call, environ, scope, exit_exc,
                   propagated, aux>>

\* Lolzteam.__init__, SyncAPIClient.__init__ and BaseClient.__init__
Construct ==
    /\ session = "none"
    /\ init_error = None
    /\ \E arg \in KeyArgs, keep \in BOOLEAN, delay \in Delays :
          LET key == IF TruthyStr(arg) THEN arg ELSE environ
          IN  /\ api_key_arg' = arg
              /\ IF ~TruthyStr(key)
                 THEN /\ init_error' = Some(OtherError("TypeError"))
                      /\ UNCHANGED <<config, last_request_time, session>>
                 ELSE /\ api_key' = key[1]
                      /\ version' = Version
                      /\ base_url' = DefaultBaseUrl
                      /\ keep_rate_limit' = keep
                      /\ last_request_time' = 0
                      /\ request_limit' = DefaultRequestLimit
                      /\ delay_between_requests' = delay
                      /\ session' = "open"
                      /\ UNCHANGED init_error
    /\ UNCHANGED <<now, last_completed, call, environ, scope, exit_exc,
                   propagated, aux>>

\* SyncAPIClient.close, called by the caller between two requests
Close ==
    /\ session = "open"
    /\ \A c \in Callers : call[c].pc = "idle"
    /\ session' = "closed"
    /\ UNCHANGED <<config, last_request_time, now, last_completed, call,
                   environ, api_key_arg, init_error, scope, exit_exc,
                   propagated, aux>>

\* SyncAPIClient.__enter__
Enter ==
    /\ session = "open"
    /\ scope = "none"
    /\ \A c \in Callers : call[c].pc = "idle"
    /\ scope' = "entered"
    /\ UNCHANGED <<config, last_request_time, now, last_completed, call,
                   environ, api_key_arg, init_error, session, exit_exc,
                   propagated, aux>>

\* the exceptions the with block can end with: none, or the one the last
\* request() raised and the block did not catch
BlockExceptions ==
    {None} \cup {call[c].outcome.exc :
                    c \in {d \in Callers : call[d].outcome.kind = "raise"}}

\* the value __exit__ returns: None, so nothing is suppressed
ExitReturn == FALSE

\* Exit closing the session only when the block ended without an exception
Exit_ClosesOnSuccessOnly ==
    /\ scope = "entered"
    /\ \A c \in Callers : call[c].pc = "idle"
    /\ \E exc \in BlockExceptions :
          /\ exit_exc' = exc
          /\ session' = IF exc = None THEN "closed" ELSE session
          /\ propagated' = IF ExitReturn THEN None ELSE exc
    /\ scope' = "exited"
    /\ UNCHANGED <<config, last_request_time, now, last_completed, call,
                   environ, api_key_arg, init_error, aux>>

\* SyncAPIClient.__exit__ at the end of the with block
Exit ==
    /\ scope = "entered"
    /\ \A c \in Callers : call[c].pc = "idle"
    /\ \E exc \in BlockExceptions :
          /\ exit_exc' = exc
          /\ session' = "closed"
          /\ propagated' = IF ExitReturn THEN None ELSE exc
    /\ scope' = "exited"
    /\ UNCHANGED <<config, last_request_time, now, last_completed, call,
                   environ, api_key_arg, init_error, aux>>

\* the answers of the server in the lifecycle specification
LifecycleStatuses == {200, 429}
LifecycleBodies == {BodyId}

LifecycleReceive(c) ==
    \E status \in LifecycleStatuses, body \in LifecycleBodies :
        Answer(c, status, body)

LifecycleStep(c) ==
    \/ Get(c)
    \/ Post(c)
    \/ Delete(c)
    \/ Put(c)
    \/ EnforceRateLimit(c)
    \/ Sleep(c)
    \/ BuildRequest(c)
    \/ Send(c)
    \/ LifecycleReceive(c)
    \/ TransportError(c)
    \/ CheckResponse(c)
    \/ UpdateLastRequestTime(c)
    \/ ReturnJson(c)

NextLifecycle ==
    \/ Construct
    \/ Enter
    \/ Exit
    \/ Close
    \/ Tick
    \/ \E c \in SeqCallers : LifecycleStep(c)

SpecLifecycle == InitLifecycle /\ [][NextLifecycle]_vars

-----------------------------------------------------------------------------
(* Endpoint methods of the mixins                                          *)

\* the arguments the endpoint methods are called with
CategoryArgs ==
    {<<None, None, None>>,
     <<Some(IntValue(1)), None, Some(StrValue("natural"))>>}
Ids == {1}
UserIds == {"me"}
Pages == {None, Some(IntValue(2))}
Limits == {None, Some(IntValue(10))}
Offsets == {<<None, None>>, <<Some(IntValue(0)), None>>}
Crops == {IntValue(100)}
PostBodies == {"text"}
BatchData == {Some([uri |-> "users"])}

\* the call of an entry point an endpoint method is about to make
Entry(verb, path, files, data, params) ==
    [verb |-> verb, path |-> path, files |-> files, data |-> data,
     params |-> params]

\* an endpoint method has evaluated its arguments and is about to call
\* the entry point; the frame of the request() call made before is gone
Invoke(c, method, entry) ==
    /\ session = "open"
    /\ endpoint[c].pc = "idle"
    /\ call[c].pc = "idle"
    /\ endpoint' = [endpoint EXCEPT ![c] =
                      [pc |-> "entry", method |-> Some(method),
                       entry |-> Some(entry), result |-> NoOutcome]]
    /\ call' = [call EXCEPT ![c] = IdleCall]
    /\ UNCHANGED <<config, lifecycle, last_request_time, now, last_completed,
                   remembered, twin>>

\* an endpoint method raises while it evaluates its arguments
InvokeRaises(c, method, exc) ==
    /\ session = "open"
    /\ endpoint[c].pc = "idle"
    /\ call[c].pc = "idle"
    /\ endpoint' = [endpoint EXCEPT ![c] =
                      [pc |-> "idle", method |-> Some(method),
                       entry |-> None, result |-> Raised(exc)]]
    /\ call' = [call EXCEPT ![c] = IdleCall]
    /\ UNCHANGED <<config, lifecycle, last_request_time, now, last_completed,
                   remembered, twin>>

GetCategories(c) ==
    \E args \in CategoryArgs :
        Invoke(c, "get_categories",
               Entry("get", "/categories", None, None,
                     Some(<< <<"parent_category_id", args[1]>>,
                             <<"parent_forum_id", args[2]>>,
                             <<"order", args[3]>> >>)))

GetCategory(c) ==
    \E category_id \in Ids :
        Invoke(c, "get_category",
               Entry("get", "/categories/" \o ToString(category_id), None,
                     None, None))

\* open(filepath, "rb") returns the file, or raises and ends the method
UploadBackground(c) ==
    \E user_id \in UserIds, opened \in BOOLEAN, crop \in Crops,
       xy \in Offsets :
        IF opened
        THEN Invoke(c, "upload_background",
                    Entry("post", "/users/" \o user_id \o "/background",
                          Some([background |-> "bytes"]), None,
                          Some(<< <<"x", xy[1]>>, <<"y", xy[2]>>,
                                  <<"crop", Some(crop)>> >>)))
        ELSE InvokeRaises(c, "upload_background",
                          OtherError("FileNotFoundError"))

DeleteBackground(c) ==
    \E user_id \in UserIds :
        Invoke(c, "delete_background",
               Entry("delete", "/users/" \o user_id \o "/background", None,
                     None, None))

GetUsers(c) ==
    \E page \in Pages, limit \in Limits :
        Invoke(c, "get_users",
               Entry("get", "/users", None, None,
                     Some(<< <<"page", page>>, <<"limit", limit>> >>)))

EditPost(c) ==
    \E post_id \in Ids, post_body \in PostBodies :
        Invoke(c, "edit_post",
               Entry("put", "/posts/" \o ToString(post_id), None,
                     Some([post_body |-> post_body]), None))

Batch(c) ==
    \E data \in BatchData :
        Invoke(c, "batch", Entry("post", "/batch", None, data, None))

\* EndpointEntry calling the entry point again after it returned
EndpointEntry_Again(c) ==
    /\ endpoint[c].pc = "entry"
    /\ LET e == endpoint[c].entry[1]
       IN  \/ e.verb = "get" /\ Request(c, GetRoute(e.path, e.params))
           \/ e.verb = "post"
                 /\ Request(c, PostRoute(e.path, e.files, e.data, e.params))
           \/ e.verb = "delete"
                 /\ Request(c, DeleteRoute(e.path, e.params))
           \/ e.verb = "put"
                 /\ Request(c, PutRoute(e.path, e.data, e.params))

\* self.get(...), self.post(...), self.delete(...) or self.put(...)
EndpointEntry(c) ==
    /\ endpoint[c].pc = "entry"
    /\ call[c] = IdleCall
    /\ LET e == endpoint[c].entry[1]
       IN  \/ e.verb = "get" /\ Request(c, GetRoute(e.path, e.params))
           \/ e.verb = "post"
                 /\ Request(c, PostRoute(e.path, e.files, e.data, e.params))
           \/ e.verb = "delete"
                 /\ Request(c, DeleteRoute(e.path, e.params))
           \/ e.verb = "put"
                 /\ Request(c, PutRoute(e.path, e.data, e.params))

\* return self.get(...): what the entry point returned or raised leaves the
\* endpoint method
EndpointReturn(c) ==
    /\ endpoint[c].pc = "entry"
    /\ call[c].pc = "idle"
    /\ call[c].outcome.kind # "none"
    /\ endpoint' = [endpoint EXCEPT ![c].pc = "idle",
                                    ![c].result = call[c].outcome]
    /\ UNCHANGED <<config, lifecycle, last_request_time, now, last_completed,
                   call, remembered, twin>>

\* the Route of a call and the request built from it are noted, each Route
\* once
Remember(c) ==
    /\ Len(remembered) < MaxNotes
    /\ call[c].prepped # None
    /\ \A i \in DOMAIN remembered :
          remembered[i].route # call[c].route[1]
    /\ remembered' = Append(remembered,
                            [route |-> call[c].route[1],
                             request |-> call[c].prepped[1]])
    /\ UNCHANGED <<config, lifecycle, last_request_time, now, last_completed,
                   call, endpoint, twin>>

InitEndpoints ==
    Init /\ ~keep_rate_limit /\ delay_between_requests = DefaultDelay

EndpointStep(c) ==
    \/ GetCategories(c)
    \/ GetCategory(c)
    \/ UploadBackground(c)
    \/ DeleteBackground(c)
    \/ GetUsers(c)
    \/ EditPost(c)
    \/ Batch(c)
    \/ EndpointEntry(c)
    \/ BuildRequest(c)
    \/ Send(c)
    \/ LifecycleReceive(c)
    \/ TransportError(c)
    \/ CheckResponse(c)
    \/ UpdateLastRequestTime(c)
    \/ ReturnJson(c)
    \/ EndpointReturn(c)
    \/ Remember(c)

NextEndpoints == \E c \in SeqCallers : EndpointStep(c)

SpecEndpoints == InitEndpoints /\ [][NextEndpoints]_vars

-----------------------------------------------------------------------------
(* Two clients that differ in request_limit only, given the same calls,    *)
(* answers and clock readings.  The variables hold the client whose turn   *)
(* it is; twin.other holds the other one.  The first client takes a step,  *)
(* the second one takes the step with the same inputs, and so on.          *)

\* the request_limit the second client is constructed with
OtherLimits == {1}

\* a client and the clock and wire it lives with
World ==
    [request_limit |-> request_limit,
     last_request_time |-> last_request_time,
     now |-> now,
     last_completed |-> last_completed,
     call |-> call]

\* what a client is given: the clock readings, the Routes of the calls, the
\* answers of the server and the failures of the transport
InputsOf(w) ==
    [now |-> w.now,
     calls |-> [c \in Callers |->
                  [route |-> w.call[c].route,
                   answer |-> IF w.call[c].response = None THEN None
                              ELSE Some(<<w.call[c].response[1].status_code,
                                          w.call[c].response[1].body>>),
                   failed |-> /\ w.call[c].response = None
                              /\ w.call[c].outcome.kind = "raise"]]]

InitTwin ==
    /\ Constructed
    /\ endpoint = [c \in Callers |-> IdleEndpoint]
    /\ remembered = <<>>
    /\ \E limit \in OtherLimits :
          twin = [other |-> [World EXCEPT !.request_limit = limit],
                  snap |-> World,
                  turn |-> "lead"]

\* the client whose turn it is takes one step; the second client takes the
\* step that gives it the inputs the first one was given
Paired(step) ==
    /\ twin.snap = World
    /\ step
    /\ twin.turn = "follow" => InputsOf(World') = InputsOf(twin.other)

\* the client that has taken its step steps aside for the other one
Swap ==
    /\ twin.snap # World
    /\ request_limit' = twin.other.request_limit
    /\ last_request_time' = twin.other.last_request_time
    /\ now' = twin.other.now
    /\ last_completed' = twin.other.last_completed
    /\ call' = twin.other.call
    /\ twin' = [other |-> World,
                snap |-> twin.other,
                turn |-> IF twin.turn = "lead" THEN "follow" ELSE "lead"]
    /\ UNCHANGED <<version, base_url, api_key, keep_rate_limit,
                   delay_between_requests, lifecycle, endpoint, remembered>>

TwinStep(c) ==
    \/ Paired(Get(c))
    \/ Paired(Delete(c))
    \/ Paired(Put(c))
    \/ Paired(EnforceRateLimit(c))
    \/ Paired(Sleep(c))
    \/ Paired(BuildRequest(c))
    \/ Paired(Send(c))
    \/ Paired(LifecycleReceive(c))
    \/ Paired(TransportError(c))
    \/ Paired(CheckResponse(c))
    \/ Paired(UpdateLastRequestTime(c))
    \/ Paired(ReturnJson(c))

PairedStep == Paired(Tick) \/ \E c \in SeqCallers : TwinStep(c)

NextTwin == Swap \/ PairedStep

SpecTwin == InitTwin /\ [][NextTwin]_vars

-----------------------------------------------------------------------------
(* Properties                                                              *)

\* a call of request() by c has returned or raised after a response arrived
Answered(c) ==
    /\ call[c].pc = "idle"
    /\ call[c].outcome.kind # "none"
    /\ call[c].response # None

ErrorsOf(body) ==
    IF JsonDecode(body).valid /\ JsonDecode(body).type = "object"
    THEN Some(GetErrors(JsonDecode(body).value))
    ELSE None

Max(a, b) == IF a >= b THEN a ELSE b

\* C1: with rate limiting enabled and one sequential caller, every request
\* is sent no earlier than delay_between_requests after the response of the
\* request before it arrived.
C1_ConsecutiveSpacing ==
    [][\A c \in Callers :
          (/\ keep_rate_limit
           /\ call[c].pc = "send"
           /\ call'[c].pc = "wait"
           /\ last_completed # None)
          => now >= last_completed[1] + delay_between_requests]_vars

\* C2: a 429 response whose body has a non-empty errors list raises a
\* RateLimitError whose message is the entries joined with "; ".
C2_RateLimitMessageJoined ==
    \A c \in Callers :
        (/\ Answered(c)
         /\ call[c].response[1].status_code = 429
         /\ ErrorsOf(call[c].response[1].body) # None
         /\ ErrorsOf(call[c].response[1].body)[1] # <<>>)
        => /\ call[c].outcome.kind = "raise"
           /\ call[c].outcome.exc[1].cls = "RateLimitError"
           /\ call[c].outcome.exc[1].message =
                  Join(ErrorsOf(call[c].response[1].body)[1])

\* the default messages the specification names
StatusDefaultMessage(status) ==
    CASE status = 400 -> "Bad Request"
      [] status = 403 -> "Forbidden"
      [] status = 429 -> "Too Many Requests"
      [] OTHER -> "Error"

\* C3: a non-success response whose errors list is empty raises an error
\* whose message is the default message of the status, never the empty
\* string.
C3_DefaultMessage ==
    \A c \in Callers :
        (/\ Answered(c)
         /\ call[c].response[1].status_code \in {400, 403, 429}
         /\ ErrorsOf(call[c].response[1].body) = Some(<<>>))
        => /\ call[c].outcome.kind = "raise"
           /\ call[c].outcome.exc[1].message # ""
           /\ call[c].outcome.exc[1].message =
                  StatusDefaultMessage(call[c].response[1].status_code)

\* C4: every non-success response raises a typed error (RateLimitError or
\* APIStatusError), also when its body is absent or is not valid JSON; no
\* other exception escapes.
C4_TypedErrorAlways ==
    \A c \in Callers :
        (Answered(c) /\ ~Ok(call[c].response[1]))
        => /\ call[c].outcome.kind = "raise"
           /\ call[c].outcome.exc[1].cls \in
                  {"RateLimitError", "APIStatusError"}

\* C5: classification dispatches on the status code only: 429 raises
\* RateLimitError, every other non-success status raises APIStatusError, and
\* no non-success response returns a value.
C5_DispatchOnStatus ==
    \A c \in Callers :
        (Answered(c) /\ ~Ok(call[c].response[1]))
        => /\ call[c].outcome.kind # "return"
           /\ call[c].outcome.exc # None
           /\ call[c].outcome.exc[1].cls =
                  IF call[c].response[1].status_code = 429
                  THEN "RateLimitError" ELSE "APIStatusError"

\* C6: every RateLimitError and APIStatusError carries the status code, the
\* originating request and a populated body field.
C6_ErrorCarriesBody ==
    \A c \in Callers :
        (/\ Answered(c)
         /\ call[c].outcome.kind = "raise"
         /\ call[c].outcome.exc[1].cls \in
                {"RateLimitError", "APIStatusError"})
        => /\ call[c].outcome.exc[1].status_code =
                  Some(call[c].response[1].status_code)
           /\ call[c].outcome.exc[1].request = call[c].prepped
           /\ call[c].outcome.exc[1].body # None

\* C7: a Route with non-empty files is built with Content-Type
\* multipart/form-data, whether or not data is non-empty too.
C7_FilesMeansMultipart ==
    \A c \in Callers :
        (call[c].prepped # None /\ Truthy(call[c].route[1].files))
        => /\ "Content-Type" \in DOMAIN call[c].prepped[1].headers
           /\ call[c].prepped[1].headers["Content-Type"] =
                  "multipart/form-data"

\* C8: a Route with empty or absent files is built with Content-Type
\* application/json when data is non-empty, and with no Content-Type entry
\* (only User-Agent and Authorization) when data is empty or absent too.
C8_NoFilesContentType ==
    \A c \in Callers :
        (call[c].prepped # None /\ ~Truthy(call[c].route[1].files))
        => IF Truthy(call[c].route[1].data)
           THEN /\ "Content-Type" \in DOMAIN call[c].prepped[1].headers
                /\ call[c].prepped[1].headers["Content-Type"] =
                       "application/json"
           ELSE DOMAIN call[c].prepped[1].headers =
                    {"User-Agent", "Authorization"}

C8_Witness ==
    \E c \in Callers :
        /\ call[c].prepped # None
        /\ call[c].route[1].files = Some(EmptyMap)
        /\ call[c].route[1].data = Some(EmptyMap)
        /\ "Content-Type" \notin DOMAIN call[c].prepped[1].headers

\* C9 as stated: every response with a status below 400 makes request()
\* return the decoded body, every status of 400 or above makes it raise.
C9_SuccessReturnsBody ==
    \A c \in Callers :
        Answered(c)
        => IF call[c].response[1].status_code >= 400
           THEN call[c].outcome.kind = "raise"
           ELSE /\ call[c].outcome.kind = "return"
                /\ call[c].outcome.value =
                       Some(JsonDecode(call[c].response[1].body).value)

\* C9 amended: a response whose status is outside 400..599 and whose body is
\* valid JSON makes request() return the decoded body unchanged; with a body
\* that is not valid JSON it raises the decode error; every status in
\* 400..599 raises.
C9_SuccessReturnsJsonBody ==
    \A c \in Callers :
        Answered(c)
        => LET status == call[c].response[1].status_code
               json == JsonDecode(call[c].response[1].body)
           IN  IF 400 <= status /\ status <= 599
               THEN call[c].outcome.kind = "raise"
               ELSE IF json.valid
                    THEN /\ call[c].outcome.kind = "return"
                         /\ call[c].outcome.value = Some(json.value)
                         /\ call[c].response[1].body = BodyId
                            => call[c].outcome.value = Some([id |-> 1])
                    ELSE /\ call[c].outcome.kind = "raise"
                         /\ call[c].outcome.exc[1].cls = "JSONDecodeError"

C9_Witness ==
    \E c \in Callers :
        /\ Answered(c)
        /\ call[c].response[1].status_code = 200
        /\ call[c].response[1].body = BodyId
        /\ call[c].outcome = Returned([id |-> 1])

\* C10: the wait computed before a request is
\* max(0, delay_between_requests - (now - last_request_time)).
C10_WaitIsMax ==
    [][\A c \in Callers :
          (call[c].pc = "enforce" /\ call'[c].pc # "enforce")
          => call'[c].sleep_time =
                 Some(Max(0, delay_between_requests
                                 - (now - last_request_time)))]_vars

C10_Witness ==
    \E c \in Callers :
        /\ call[c].pc = "sleep"
        /\ delay_between_requests = 3
        /\ now - last_request_time = 1
        /\ call[c].sleep_time = Some(2)
        /\ call[c].wake_at = Some(now + 2)

\* C11: with keep_rate_limit false no call of request() computes a wait or
\* sleeps; every call goes from its entry straight to building and sending.
C11_DisabledNeverWaits ==
    ~keep_rate_limit
    => \A c \in Callers :
          /\ call[c].pc \notin {"enforce", "sleep"}
          /\ call[c].sleep_time = None
          /\ call[c].wake_at = None

C11_Witness ==
    \E c \in Callers :
        /\ ~keep_rate_limit
        /\ call[c].pc = "wait"
        /\ last_request_time > 0
        /\ now - last_request_time < delay_between_requests

\* the steps of request() in their order
StepOrder ==
    {<<"idle", "enforce">>, <<"idle", "build">>, <<"enforce", "sleep">>,
     <<"enforce", "build">>, <<"sleep", "build">>, <<"build", "send">>,
     <<"send", "wait">>, <<"wait", "check">>, <<"wait", "idle">>,
     <<"check", "update">>, <<"check", "idle">>, <<"update", "json">>,
     <<"json", "idle">>}

\* C12: request() performs wait (if enabled), build, send, classify, update
\* of last_request_time and return in this order, each after the one before
\* has finished; a failure of the send or of the classification prevents the
\* update and the return.
C12_StepOrder ==
    [][/\ \A c \in Callers :
            /\ call[c].pc # call'[c].pc
               => <<call[c].pc, call'[c].pc>> \in StepOrder
            /\ (call[c].pc = "idle" /\ call'[c].pc # "idle")
               => call'[c].pc = IF keep_rate_limit THEN "enforce" ELSE "build"
            /\ (call[c].pc = "sleep" /\ call'[c].pc = "build")
               => now >= call[c].wake_at[1]
            /\ (call[c].pc = "send" /\ call'[c].pc = "wait")
               => call[c].prepped # None
            /\ (call[c].pc \in {"wait", "check"} /\ call'[c].pc = "idle")
               => /\ call'[c].outcome.kind = "raise"
                  /\ last_request_time' = last_request_time
            /\ (call[c].outcome.kind # "return"
                    /\ call'[c].outcome.kind = "return")
               => call[c].pc = "json"
       /\ last_request_time' # last_request_time
          => \E c \in Callers :
                /\ call[c].pc = "update"
                /\ call'[c].pc = "json"
                /\ Ok(call[c].response[1])]_vars

C12_Witness ==
    \E c \in Callers :
        /\ keep_rate_limit
        /\ call[c].pc = "idle"
        /\ call[c].outcome.kind = "return"
        /\ last_request_time > 0

\* C13: last_request_time is written only after the response of a request
\* has arrived, with a clock reading taken after the send returned, never
\* while a call is between its entry and the arrival of its response.
C13_StampAfterResponse ==
    [][\A c \in Callers :
          call'[c] # call[c]
          => IF call[c].pc = "update"
             THEN /\ call[c].response # None
                  /\ last_completed # None
                  /\ last_request_time' = now
                  /\ last_request_time' >= last_completed[1]
                  /\ call[c].sent_at = None
             ELSE last_request_time' = last_request_time]_vars

C13_Witness ==
    \E c \in Callers :
        /\ call[c].pc = "json"
        /\ last_request_time = now
        /\ last_completed # None
        /\ last_completed[1] < last_request_time

\* C14: a call of request() sends exactly one HTTP request, and an error
\* ends the call: nothing is sent a second time.
C14_NoRetry ==
    \A c \in Callers :
        /\ call[c].sends <= 1
        /\ call[c].sends = 1 <=> call[c].pc \in {"wait", "check", "update", "json"}
                                  \/ (call[c].pc = "idle"
                                        /\ call[c].prepped # None)
        /\ call[c].outcome.kind = "raise"
           => /\ call[c].pc = "idle"
              /\ call[c].sends = 1

C14_Witness ==
    \E c \in Callers :
        /\ call[c].pc = "idle"
        /\ call[c].outcome.kind = "raise"
        /\ call[c].outcome.exc[1].cls = "RateLimitError"
        /\ call[c].sends = 1

\* Lolzteam() has been called
Constructing == session # "none" \/ init_error # None

\* C15 as stated: constructing with no (or an empty) api_key and the
\* environment variable unset raises ConfigurationError before a session
\* exists or a request is sent.
C15_ConfigurationError ==
    (Constructing /\ ~TruthyStr(api_key_arg) /\ ~TruthyStr(environ))
    => /\ init_error # None
       /\ init_error[1].cls = "ConfigurationError"
       /\ session = "none"
       /\ \A c \in Callers : call[c] = IdleCall

\* C15 amended: the exception raised is a TypeError; no session exists and
\* no request is sent.
C15_TypeErrorBeforeNetwork ==
    (Constructing /\ ~TruthyStr(api_key_arg) /\ ~TruthyStr(environ))
    => /\ init_error # None
       /\ init_error[1].cls = "TypeError"
       /\ api_key = ""
       /\ session = "none"
       /\ last_completed = None
       /\ \A c \in Callers : call[c] = IdleCall

C15_Witness ==
    /\ api_key_arg = Some("")
    /\ environ = None
    /\ init_error # None
    /\ session = "none"

\* C16: the key is the api_key argument when it is given and non-empty,
\* otherwise the environment variable, and every built request carries
\* Authorization: Bearer <key> and a User-Agent header.
C16_ResolvedKeyInHeaders ==
    session # "none"
    => LET key == IF api_key_arg # None /\ api_key_arg[1] # ""
                  THEN api_key_arg[1] ELSE environ[1]
       IN  /\ key # ""
           /\ api_key = key
           /\ \A c \in Callers :
                 call[c].prepped # None
                 => /\ {"Authorization", "User-Agent"}
                          \subseteq DOMAIN call[c].prepped[1].headers
                    /\ call[c].prepped[1].headers["Authorization"] =
                           "Bearer " \o key

C16_Witness ==
    \E c \in Callers :
        /\ api_key_arg = Some("")
        /\ environ = Some("envkey")
        /\ call[c].prepped # None
        /\ call[c].prepped[1].headers["Authorization"] = "Bearer envkey"

\* C18: the session exists from construction on, and leaving the with block
\* closes it whether the block ended normally or with an exception; the
\* exception of the block leaves the with statement.
C18_SessionReleased ==
    /\ (init_error = None /\ api_key # "") => session \in {"open", "closed"}
    /\ scope = "entered" => session \in {"open", "closed"}
    /\ scope = "exited" => /\ session = "closed"
                           /\ propagated = exit_exc

C18_Witness ==
    /\ scope = "exited"
    /\ session = "closed"
    /\ exit_exc # None
    /\ exit_exc[1].cls = "RateLimitError"
    /\ propagated = exit_exc

\* the Routes the entry points construct
EntryRoute(route) ==
    /\ route.url \in Paths
    /\ CASE route.method = "GET" -> route.files = None /\ route.data = None
         [] route.method = "DELETE" -> route.files = None /\ route.data = None
         [] route.method = "PUT" -> route.files = None
         [] route.method = "POST" -> TRUE
         [] OTHER -> FALSE

\* C17: every call starts with one Route of an entry point handed to
\* request(), which passes the rate-limit switch; a request leaves only from
\* the send of request(), built from that Route, and a value is returned
\* only after the classifier accepted the response.
C17_SingleDispatchPath ==
    [][\A c \in Callers :
          /\ (call[c].pc = "idle" /\ call'[c].pc # "idle")
             => /\ call'[c].route # None
                /\ EntryRoute(call'[c].route[1])
                /\ call'[c].pc = IF keep_rate_limit THEN "enforce" ELSE "build"
                /\ call'[c].sends = 0
          /\ call'[c].sends # call[c].sends /\ call'[c].sends > 0
             => /\ call[c].pc = "send"
                /\ call[c].prepped # None
                /\ call[c].prepped[1].method = call[c].route[1].method
                /\ call[c].prepped[1].url = base_url \o call[c].route[1].url
                /\ (keep_rate_limit =>
                      now - last_request_time >= delay_between_requests)
          /\ (call[c].outcome.kind = "none" /\ call'[c].outcome.kind = "return")
             => CheckResponseOf(call[c].response[1]) = None]_vars

C17_Witness ==
    \E c \in Callers :
        /\ keep_rate_limit
        /\ call[c].pc = "wait"
        /\ call[c].route[1].method = "DELETE"
        /\ last_request_time > 0

\* C19: no call changes the base URL, the key, the version, the rate-limit
\* flag, the request limit, the delay or the session; only
\* last_request_time changes.
C19_ConfigImmutable ==
    [][/\ version' = version
       /\ base_url' = base_url
       /\ api_key' = api_key
       /\ keep_rate_limit' = keep_rate_limit
       /\ request_limit' = request_limit
       /\ delay_between_requests' = delay_between_requests
       /\ session' = session]_vars

C19_Witness ==
    \E c \in Callers :
        /\ last_request_time > 0
        /\ call[c].pc = "idle"
        /\ call[c].outcome.kind = "raise"
        /\ request_limit = DefaultRequestLimit

\* C20: nothing excludes one caller from the rate limiter or from the send
\* while another caller is inside request(): a caller at the wait
\* computation can always read the timestamp, and a caller with a built
\* request can always send it.
C20_NoMutualExclusion ==
    \A c \in Callers :
        /\ call[c].pc = "enforce" => ENABLED EnforceRateLimit(c)
        /\ call[c].pc = "send" => ENABLED Send(c)

\* both callers read the timestamp before either wrote it, and their
\* requests are on the wire less than delay_between_requests apart
C20_Witness ==
    /\ keep_rate_limit
    /\ delay_between_requests = DefaultDelay
    /\ last_request_time > 0
    /\ call["c1"].pc = "wait"
    /\ call["c2"].pc = "wait"
    /\ call["c1"].sent_at[1] - call["c2"].sent_at[1] < delay_between_requests
    /\ call["c2"].sent_at[1] - call["c1"].sent_at[1] < delay_between_requests

HasValue(item) == item[2] # None

\* name=value of every item of kept, in order, with & between them
RECURSIVE QueryText(_)
QueryText(kept) ==
    IF Len(kept) = 0 THEN ""
    ELSE kept[1][1] \o "=" \o Str(kept[1][2][1])
         \o (IF Len(kept) > 1 THEN "&" \o QueryText(Tail(kept)) ELSE "")

InStep ==
    \/ twin.turn = "lead" /\ twin.snap = World
    \/ twin.turn = "follow" /\ twin.snap # World

\* C23: request_limit is advisory only: two clients that differ in
\* request_limit only and are given the same calls, answers and clock
\* readings compute the same waits, build and send the same requests,
\* write the same timestamps and return or raise the same results, step
\* by step; the second client can always take the step of the first.
C23_LimitAdvisory ==
    /\ twin.other.request_limit # request_limit
    /\ InStep => /\ call = twin.other.call
                 /\ last_request_time = twin.other.last_request_time
                 /\ last_completed = twin.other.last_completed
                 /\ now = twin.other.now
    /\ (twin.turn = "follow" /\ twin.snap = World) => ENABLED PairedStep

\* both clients have waited, sent a request and returned its body
C23_Witness ==
    \E c \in Callers :
        /\ twin.turn = "follow"
        /\ twin.snap # World
        /\ request_limit \in OtherLimits
        /\ twin.other.request_limit = DefaultRequestLimit
        /\ keep_rate_limit
        /\ call[c].pc = "idle"
        /\ call[c].outcome = Returned([id |-> 1])
        /\ twin.other.call[c].outcome = Returned([id |-> 1])
        /\ last_request_time >= delay_between_requests

\* C24: a failure the session raises during the send leaves request() as
\* it is: the exception of the call is the session's own, not an APIError
\* and with no request, response or status attached; no response was
\* classified, and the request was sent once.
C24_TransportErrorUnchanged ==
    \A c \in Callers :
        (/\ call[c].pc = "idle"
         /\ call[c].prepped # None
         /\ call[c].response = None)
        => /\ call[c].outcome = Raised(OtherError("ConnectionError"))
           /\ call[c].outcome.exc[1].cls \notin
                  {"APIError", "APIStatusError", "RateLimitError"}
           /\ call[c].outcome.exc[1].request = None
           /\ call[c].outcome.exc[1].response = None
           /\ call[c].sends = 1
           /\ call[c].sent_at = None

C24_Witness ==
    \E c \in Callers :
        /\ keep_rate_limit
        /\ last_request_time > 0
        /\ call[c].pc = "idle"
        /\ call[c].sends = 1
        /\ call[c].response = None
        /\ call[c].outcome.kind = "raise"
        /\ call[c].outcome.exc[1].cls = "ConnectionError"

\* the entry point each endpoint method of the model calls
VerbOf(method) ==
    CASE method \in {"get_categories", "get_category", "get_users"} -> "GET"
      [] method \in {"upload_background", "batch"} -> "POST"
      [] method = "delete_background" -> "DELETE"
      [] method = "edit_post" -> "PUT"

\* C25 as stated: every invocation of an endpoint method has called one
\* entry point once when it ends, and ends with what that call returned or
\* raised.
C25_OneEntryCall ==
    \A c \in Callers :
        (endpoint[c].pc = "idle" /\ endpoint[c].method # None)
        => /\ call[c].route # None
           /\ call[c].route[1].method = VerbOf(endpoint[c].method[1])
           /\ call[c].outcome.kind # "none"
           /\ endpoint[c].result = call[c].outcome

\* C25 amended: an endpoint method calls one entry point, its own, once,
\* with the arguments it evaluated, and ends with what that call returned
\* or raised, unchanged; upload_background ends without any call, raising
\* the error of open(), when the file cannot be opened.
C25_OneEntryCallOnceOpened ==
    [][\A c \in Callers :
          /\ (call[c].pc = "idle" /\ call'[c].pc # "idle")
             => /\ endpoint[c].pc = "entry"
                /\ call[c] = IdleCall
                /\ call'[c].route[1].method = VerbOf(endpoint[c].method[1])
                /\ call'[c].route[1].url = endpoint[c].entry[1].path
                /\ call'[c].route[1].files = endpoint[c].entry[1].files
                /\ call'[c].route[1].data = endpoint[c].entry[1].data
                /\ call'[c].route[1].params = endpoint[c].entry[1].params
          /\ (endpoint[c].pc = "entry" /\ endpoint'[c].pc = "idle")
             => /\ call[c].route # None
                /\ call[c].pc = "idle"
                /\ call[c].sends = 1
                /\ call[c].outcome.kind # "none"
                /\ endpoint'[c].result = call[c].outcome
          /\ (endpoint[c].pc = "idle" /\ endpoint'[c] # endpoint[c])
             => \/ endpoint'[c].pc = "entry" /\ call'[c] = IdleCall
                \/ /\ endpoint'[c].method = Some("upload_background")
                   /\ endpoint'[c].pc = "idle"
                   /\ endpoint'[c].result =
                          Raised(OtherError("FileNotFoundError"))
                   /\ call'[c] = IdleCall]_vars

C25_Witness ==
    \E c \in Callers :
        /\ endpoint[c].pc = "idle"
        /\ endpoint[c].method = Some("upload_background")
        /\ endpoint[c].result = Returned([id |-> 1])
        /\ call[c].route[1].method = "POST"
        /\ call[c].route[1].files = Some([background |-> "bytes"])
        /\ call[c].prepped[1].query = "x=0&crop=100"
        /\ call[c].sends = 1

\* C26: with rate limiting enabled a call sleeps at most once: it starts
\* to sleep only from the wait computation, only when the computed wait is
\* above 0 and for that duration; the sleep ends once the duration has
\* passed, before anything is built or sent, and the call goes on to the
\* build without reading the clock again.
C26_SleepsOnce ==
    [][\A c \in Callers :
          /\ (call[c].pc # "sleep" /\ call'[c].pc = "sleep")
             => /\ keep_rate_limit
                /\ call[c].pc = "enforce"
                /\ call'[c].sleep_time =
                       Some(delay_between_requests - (now - last_request_time))
                /\ call'[c].sleep_time[1] > 0
                /\ call'[c].wake_at = Some(now + call'[c].sleep_time[1])
          /\ (call[c].pc = "enforce" /\ call'[c].pc = "build")
             => /\ call'[c].sleep_time = Some(0)
                /\ now - last_request_time >= delay_between_requests
          /\ (call[c].pc = "sleep" /\ call'[c] # call[c])
             => /\ call'[c].pc = "build"
                /\ now >= call[c].wake_at[1]
                /\ call[c].prepped = None
                /\ call[c].sends = 0
          /\ (call[c].pc # "enforce" /\ call'[c].pc = "enforce")
             => call[c].pc = "idle"]_vars

\* a call has slept its 2 ticks and is about to build
C26_Witness ==
    \E c \in Callers :
        /\ call[c].pc = "build"
        /\ last_request_time > 0
        /\ call[c].sleep_time = Some(2)
        /\ call[c].wake_at = Some(now)
        /\ call[c].prepped = None

C28_NoHeaderLeak ==
    \A c \in Callers :
        \A i \in DOMAIN remembered :
            (/\ call[c].prepped # None
             /\ Truthy(remembered[i].route.data)
                   \/ Truthy(remembered[i].route.files)
             /\ ~Truthy(call[c].route[1].data)
             /\ ~Truthy(call[c].route[1].files))
            => /\ "Content-Type" \in DOMAIN remembered[i].request.headers
               /\ "Content-Type" \notin DOMAIN call[c].prepped[1].headers
               /\ call[c].prepped[1].headers = DefaultHeaders

\* upload_background was built as multipart/form-data and
\* delete_background is built after it
C28_Witness ==
    \E c \in Callers :
        /\ Len(remembered) >= 1
        /\ remembered[1].route.method = "POST"
        /\ Truthy(remembered[1].route.files)
        /\ remembered[1].request.headers["Content-Type"] =
               "multipart/form-data"
        /\ endpoint[c].method = Some("delete_background")
        /\ call[c].pc = "send"
        /\ call[c].route[1].method = "DELETE"
        /\ DOMAIN call[c].prepped[1].headers = {"User-Agent", "Authorization"}

\* C29: a response that is ok with a body that is not JSON makes request()
\* raise the decode error, return nothing, after one send; the timestamp is
\* written before the decode, so that when no other caller has used the
\* client it is at or after the arrival of that response.
C29_DecodeErrorAfterStamp ==
    \A c \in Callers :
        /\ (call[c].pc = "json"
              /\ ~JsonDecode(call[c].response[1].body).valid)
           => /\ call[c].sends = 1
              /\ (\A d \in Callers \ {c} : call[d] = IdleCall)
                 => /\ last_request_time >= last_completed[1]
                    /\ last_request_time <= now
        /\ (/\ Answered(c)
             /\ Ok(call[c].response[1])
             /\ ~JsonDecode(call[c].response[1].body).valid)
           => /\ call[c].outcome = Raised(OtherError("JSONDecodeError"))
              /\ call[c].outcome.value = None
              /\ call[c].sends = 1
              /\ (\A d \in Callers \ {c} : call[d] = IdleCall)
                 => /\ last_request_time >= last_completed[1]
                    /\ last_request_time <= now

\* the only caller so far got a 200 with an HTML body at time 1, the
\* timestamp was written at time 2 and the decode error was raised
C29_Witness ==
    \E c \in Callers :
        /\ \A d \in Callers \ {c} : call[d] = IdleCall
        /\ Answered(c)
        /\ call[c].response[1].status_code = 200
        /\ call[c].response[1].body = BodyHtml
        /\ call[c].outcome.kind = "raise"
        /\ call[c].outcome.exc[1].cls = "JSONDecodeError"
        /\ last_completed = Some(1)
        /\ last_request_time = 2

\* C30: with a clock that never goes back, every computed wait lies
\* between 0 and delay_between_requests, last_request_time never decreases,
\* and a request made while last_request_time is still 0 and the clock
\* reads delay_between_requests or more goes to the build without a wait.
C30_WaitBoundedStampMonotone ==
    [][/\ now' >= now => last_request_time' >= last_request_time
       /\ \A c \in Callers :
             (call[c].pc = "enforce" /\ call'[c] # call[c])
             => /\ call'[c].sleep_time # None
                /\ call'[c].sleep_time[1] >= 0
                /\ call'[c].sleep_time[1] <= delay_between_requests
                /\ (last_request_time = 0 /\ now >= delay_between_requests)
                   => /\ call'[c].sleep_time = Some(0)
                      /\ call'[c].pc = "build"]_vars

\* the first request of the client is on the wire at the time it was
\* made: no response has arrived yet and the clock reads the delay
C30_Witness ==
    \E c \in Callers :
        /\ keep_rate_limit
        /\ delay_between_requests > 0
        /\ last_request_time = 0
        /\ last_completed = None
        /\ now = delay_between_requests
        /\ call[c].pc = "wait"
        /\ call[c].sent_at = Some(now)

====
